---- MODULE Spec2Model ----
(***************************************************************************)
(* A model of the rustkrazy packer (src/src/main.rs): main validates the   *)
(* arguments, opens the target, and partition() writes the MBR partition   *)
(* table, formats and fills the boot volume, patches the MBR with the      *)
(* bootloader and the two LBAs, and writes the two root filesystem slots.  *)
(*                                                                         *)
(* Sizes and offsets.  TLC integers are 32 bits wide, so a u64 byte count  *)
(* that may reach 4 GiB (dev_size, the length of the target) is kept as a  *)
(* record [s |-> sectors, r |-> bytes beyond them] with 0 <= r < 512.      *)
(* Offsets the program itself addresses stay below 770 MiB and are plain   *)
(* integers.                                                               *)
(*                                                                         *)
(* The target's bytes.  disk is a function from byte offsets to bytes; an  *)
(* offset outside its domain holds the byte 0.  The MBR sector and the     *)
(* contents of kernel.img and cmdline.txt are kept byte for byte; the FAT  *)
(* metadata, the firmware blobs and the squashfs images are recorded as    *)
(* the byte ranges they cover (the log `writes`).                          *)
(***************************************************************************)
EXTENDS Integers, Sequences, FiniteSets, TLC

VARIABLES
    pc,          \* position in main/partition: main, table, slices, boot, mbr, rootA, rootB, done, failed
    err,         \* "" or the kind of fatal error that ended the run
    args,        \* the parsed command line (struct Args)
    target,      \* what --overwrite names: [kind, len] (len: the size a device reports)
    build,       \* [overflow_checks]: whether the build panics on integer overflow
    opened,      \* the target has been opened (and created if absent)
    dev_size,    \* partition()'s dev_size argument, once known
    disk,        \* byte offsets -> bytes
    file_len,    \* length of the target in bytes, as [s, r]
    cursor,      \* the file offset shared by `file` and all its clones
    slices,      \* the three StreamSlice values: name -> [start, size, cur]
    buf,         \* write_boot's result: name -> content written
    placed,      \* where the FAT volume put each file's content: name -> byte offset
    search,      \* write_mbr's two searches: [done, kernel, cmdline] (positions or -1)
    boot_bin,    \* the bytes read from boot.bin
    root,        \* per slot, the tree handed to squashfs: [bin, inodes]
    writes,      \* log of byte ranges written: set of [who, lo, hi) records
    env          \* what the collaborators answer in this run (fetcher, FAT library, boot.bin, cargo, squashfs)

vars == <<pc, err, args, target, build, opened, dev_size, disk, file_len, cursor,
          slices, buf, placed, search, boot_bin, root, writes, env>>

-----------------------------------------------------------------------------
(* Constants of the program *)

KiB == 1024
MiB == 1024 * KiB
SECTOR == 512
SLOT_SECTORS == (256 * MiB) \div 512
BOOTLOADER_LEN == 432
U32_SECTORS == 8388608      \* 2^32 / 512: sectors in the range of a u32 byte count

(* Bounds of the model *)
MaxContentLen == 2          \* longest kernel.img / cmdline.txt content

-----------------------------------------------------------------------------
(* Helpers *)

Min(a, b) == IF a <= b THEN a ELSE b
Max(a, b) == IF a >= b THEN a ELSE b
Zeros(n) == [i \in 1..n |-> 0]
SetMin(S) == CHOOSE x \in S : \A y \in S : x <= y

Sz(s, r) == [s |-> s, r |-> r]
\* off <= z, for a plain offset and a byte count kept as [s, r]
OffLeq(off, z) == \/ off \div SECTOR < z.s
                  \/ off \div SECTOR = z.s /\ off % SECTOR <= z.r
\* min(off, z) as a plain offset
Clamp(off, z) == IF OffLeq(off, z) THEN off ELSE z.s * SECTOR + z.r
\* max(off, z) as a byte count
Grow(z, off) == IF OffLeq(off, z) THEN z ELSE Sz(off \div SECTOR, off % SECTOR)

\* u32::to_le_bytes of x mod 2^32, for -2^31 < x < 2^31
U32LE(x) == << x % 256, (x \div 256) % 256, (x \div 65536) % 256, (x \div 16777216) % 256 >>

ByteAt(d, off) == IF off \in DOMAIN d THEN d[off] ELSE 0
ReadAt(d, off, n) == [i \in 1..n |-> ByteAt(d, off + i - 1)]
WriteAt(d, off, bytes) ==
    [o \in (DOMAIN d) \cup (off .. off + Len(bytes) - 1) |->
        IF o >= off /\ o < off + Len(bytes) THEN bytes[o - off + 1] ELSE d[o]]

-----------------------------------------------------------------------------
(* write_mbr_partition_table *)

INACTIVE == <<0>>
ACTIVE == <<128>>
INVALID_CHS == <<255, 255, 254>>
FAT == <<12>>
LINUX == <<131>>
SQUASHFS == LINUX
SIGNATURE == <<85, 170>>

\* (dev_size as u32) / 512: the cast keeps dev_size mod 2^32
AsU32Div512(sz) == sz.s % U32_SECTORS

\* dev_size as u32 / 512 - 2048 - 3 * (256 * MiB / 512), before any wrap-around
DataSizeExpr(sz) == AsU32Div512(sz) - 2048 - 3 * SLOT_SECTORS

Partition1 == ACTIVE \o INVALID_CHS \o FAT \o INVALID_CHS
              \o U32LE(2048) \o U32LE(SLOT_SECTORS)
Partition2 == INACTIVE \o INVALID_CHS \o SQUASHFS \o INVALID_CHS
              \o U32LE(2048 + SLOT_SECTORS) \o U32LE(SLOT_SECTORS)
Partition3 == INACTIVE \o INVALID_CHS \o SQUASHFS \o INVALID_CHS
              \o U32LE(2048 + 2 * SLOT_SECTORS) \o U32LE(SLOT_SECTORS)
Partition4Head == INACTIVE \o INVALID_CHS \o LINUX \o INVALID_CHS
                  \o U32LE(2048 + 3 * SLOT_SECTORS)

\* The subtraction underflows: a build with overflow checks panics there,
\* after the write_all calls before it; a build without them wraps.
TablePanics(sz, checks) == checks /\ DataSizeExpr(sz) < 0

\* The bytes write_mbr_partition_table writes, in order
TableBytes(sz, checks) ==
    IF TablePanics(sz, checks)
    THEN Zeros(446) \o Partition1 \o Partition2 \o Partition3 \o Partition4Head
    ELSE Zeros(446) \o Partition1 \o Partition2 \o Partition3 \o Partition4Head
         \o U32LE(DataSizeExpr(sz)) \o SIGNATURE

-----------------------------------------------------------------------------
(* Package names and git locations.  A string is a sequence of tokens; the *)
(* token "https://h/" is a URL up to and including the last '/' of its     *)
(* path, "%" is the separator of the name override, ".git" the suffix.     *)

URL_BASE == "https://h/"

FirstPct(loc) == IF \E i \in 1..Len(loc) : loc[i] = "%"
                 THEN SetMin({i \in 1..Len(loc) : loc[i] = "%"})
                 ELSE 0

\* location.split('%'): the first piece
SplitFirst(loc) == IF FirstPct(loc) = 0 THEN loc ELSE SubSeq(loc, 1, FirstPct(loc) - 1)
\* location.split('%'): whether there is a second piece, and the piece
HasSecond(loc) == FirstPct(loc) # 0
SplitSecond(loc) == LET rest == SubSeq(loc, FirstPct(loc) + 1, Len(loc))
                    IN  SplitFirst(rest)

\* Url::parse succeeds on an absolute URL
UrlParses(u) == Len(u) >= 1 /\ u[1] = URL_BASE
\* url.path_segments().unwrap().next_back().unwrap()
LastSegment(u) == Tail(u)

RECURSIVE TrimEndGit(_)
TrimEndGit(seg) == IF Len(seg) >= 1 /\ seg[Len(seg)] = ".git"
                   THEN TrimEndGit(SubSeq(seg, 1, Len(seg) - 1))
                   ELSE seg

\* The package name of a git location whose URL parses
GitPkg(loc) == IF HasSecond(loc) THEN SplitSecond(loc)
               ELSE TrimEndGit(LastSegment(SplitFirst(loc)))

ArchValid(arch) == arch \in {"x86_64", "rpi"}

InitInCrates(a) == \E i \in 1..Len(a.crates) : a.crates[i] = a.init
InitInGit(a) == \E i \in 1..Len(a.git) :
                    /\ UrlParses(SplitFirst(a.git[i]))
                    /\ GitPkg(a.git[i]) = a.init
InitListed(a) == InitInCrates(a) \/ InitInGit(a)

\* (variant: the init package is not looked for)
ConfigErrorArchOnly(a) == IF ~ArchValid(a.arch) THEN "arch" ELSE ""

\* main's checks that come before the target is opened
ConfigError(a) == IF ~ArchValid(a.arch) THEN "arch"
                  ELSE IF ~InitListed(a) THEN "init"
                  ELSE ""

------------------------------------------------------------------------

-----------------------------------------------------------------------------
(* StreamSlice (fscommon): a window [start, start + size) on a clone of    *)
(* the target.  It keeps its own position `cur`; read and write act at the *)
(* shared file offset and are cut off at size - cur; seek moves the shared *)
(* offset to start + position.                                             *)

ROOT_A_START == 2048 * 512 + 256 * MiB
root_a_end == ROOT_A_START + 256 * MiB
root_b_end == root_a_end + 256 * MiB

\* StreamSlice::new(inner, start_offset, end_offset)
SliceNew(start_offset, end_offset) ==
    [start |-> start_offset, size |-> end_offset - start_offset, cur |-> 0]

\* The three slices partition() creates
BootSlice == SliceNew(2048 * 512, ROOT_A_START - 1)
RootASlice == SliceNew(ROOT_A_START, root_a_end - 1)
RootBSlice == SliceNew(root_a_end, root_b_end - 1)

\* The room a write through the slice has: size - cur, and on a block
\* device no further than the device's end
SliceRoom(sl, off, kind, len) ==
    IF kind = "device"
    THEN Max(0, Min(sl.size - sl.cur, Clamp(off + (sl.size - sl.cur), len) - off))
    ELSE sl.size - sl.cur

-----------------------------------------------------------------------------
(* write_mbr *)

\* buf.windows(n).position(|w| w == pat) for the buffer read_to_end fills
\* from offset `from` to the end of the target: the offset of the first
\* match relative to `from`, or -1.  Only windows that start at `from` or
\* touch a recorded byte can differ from their predecessor, so the first
\* match is among them.
Candidates(d, from, n) ==
    {from} \cup UNION { (o - n + 1) .. (o + 1) : o \in {x \in DOMAIN d : x + 1 >= from} }

Position(d, from, len, pat) ==
    LET n == Len(pat)
        hits == { o \in Candidates(d, from, n) :
                    /\ o >= from
                    /\ OffLeq(o + n, len)
                    /\ ReadAt(d, o, n) = pat }
    IN  IF hits = {} THEN -1 ELSE SetMin(hits) - from

\* kernel_offset / cmdline_offset: position / 512 + 1
SectorOffset(pos) == pos \div 512 + 1
\* kernel_lba / cmdline_lba
Lba(pos) == SectorOffset(pos) + 2048

\* bootloader_buf.resize(432, 0); &bootloader_buf[..432]
Resize432(b) == [i \in 1..BOOTLOADER_LEN |-> IF i <= Len(b) THEN b[i] ELSE 0]

\* bootloader_params
BootloaderParams(kpos, cpos) == U32LE(Lba(kpos)) \o U32LE(Lba(cpos))

\* What write_mbr does after reading the buffer: "" when it goes on to
\* write, else the fatal error.  windows(0) panics, expect panics on None,
\* File::open fails on a missing boot.bin.
MbrError(kbuf, cbuf, kpos, cpos, bin) ==
    IF Len(kbuf) = 0 THEN "panic-windows"
    ELSE IF kpos < 0 THEN "panic-kernel"
    ELSE IF Len(cbuf) = 0 THEN "panic-windows"
    ELSE IF cpos < 0 THEN "panic-cmdline"
    ELSE IF ~bin.present THEN "io-bootbin"
    ELSE ""

-----------------------------------------------------------------------------
(* write_root: the tree handed to the squashfs writer *)

INIT_NAME == <<"init">>

\* if pkg == init { "init" } else { pkg }
BinName(pkg, init) == IF pkg = init THEN INIT_NAME ELSE pkg

GitPkgs(git) == [i \in 1..Len(git) |-> GitPkg(git[i])]

\* crate_inodes: one file per crate, then one per git package; an inode
\* reference is the index of its file
CrateInodes(crates, git, init) ==
    [i \in 1..(Len(crates) + Len(git)) |->
        LET pkg == IF i <= Len(crates) THEN crates[i] ELSE GitPkgs(git)[i - Len(crates)]
        IN  [path |-> <<"bin", BinName(pkg, init)>>, binary |-> pkg]]

\* crates.clone().into_iter().map(rename).zip(crate_inodes.into_iter())
BinEntries(crates, inodes, init) ==
    [i \in 1..Min(Len(crates), Len(inodes)) |->
        [name |-> BinName(crates[i], init), inode |-> i]]

RootTree(crates, git, init) ==
    [inodes |-> CrateInodes(crates, git, init),
     bin |-> BinEntries(crates, CrateInodes(crates, git, init), init),
     top |-> <<"bin", "dev", "boot">>]

NoTree == [inodes |-> << >>, bin |-> << >>, top |-> << >>]

GitUrlsParse(git) == \A i \in 1..Len(git) : UrlParses(SplitFirst(git[i]))

-----------------------------------------------------------------------------
(* Inputs *)

Archs == {"x86_64", "rpi", "arm"}

Packages ==
    { [crates |-> << <<"a">> >>, git |-> << >>, init |-> <<"a">>],
      [crates |-> << <<"b">>, <<"a">> >>, git |-> << >>, init |-> <<"a">>],
      [crates |-> << <<"b">> >>, git |-> << <<URL_BASE, "a", ".git">> >>, init |-> <<"a">>],
      [crates |-> << >>, git |-> << <<URL_BASE, "x", "%", "a">>, <<URL_BASE, "b">> >>, init |-> <<"a">>],
      [crates |-> << <<"b">> >>, git |-> << <<URL_BASE, "x">> >>, init |-> <<"a">>],
      [crates |-> << <<"a">> >>, git |-> << <<"b">> >>, init |-> <<"a">>] }

\* Sizes in bytes as [s, r]: 512 MiB, exactly the fixed regions, one sector
\* and 7 bytes more, 2 GiB, 4 GiB, 5 GiB.
Sizes == { Sz(1048576, 0), Sz(1574912, 0), Sz(1574913, 7),
           Sz(4194304, 0), Sz(8388608, 0), Sz(10485760, 0) }

NoSize == Sz(-1, 0)

\* A block device reports its size; a plain file is created empty if absent
Targets == { [kind |-> "device", len |-> z] : z \in Sizes }
           \cup { [kind |-> "file", len |-> Sz(0, 0)] }

ArgsSet == { [arch |-> ar, crates |-> p.crates, git |-> p.git, init |-> p.init, size |-> sz] :
                ar \in Archs, p \in Packages, sz \in Sizes \cup {NoSize} }

DefaultArgs == [arch |-> "x86_64", crates |-> << <<"b">>, <<"a">> >>, git |-> << >>,
                init |-> <<"a">>, size |-> Sz(4194304, 0)]
DefaultTarget == [kind |-> "file", len |-> Sz(0, 0)]

\* Contents the fetcher may return for kernel.img and cmdline.txt
ContentBytes == {1, 2}
Contents == UNION { [1..n -> ContentBytes] : n \in 0..MaxContentLen }

\* Sectors of the boot volume where the FAT library puts the two files
\* (cmdline.txt is created first), and the end of the metadata before them
Placements == { [cmdline |-> 8200, kernel |-> 8208], [cmdline |-> 8208, kernel |-> 8200] }
FatMetaBytes == 8192 * SECTOR
FirmwareRange == [lo |-> 8300 * SECTOR, hi |-> 8400 * SECTOR]

\* Where the FAT library's last access leaves the slice position
EndPositions == {0, 66, 512, 1024, 8200 * SECTOR + 1}

\* Bytes already on the target before the run
StaleDisks == { << >>, [o \in {8196 * SECTOR + 2048 * 512 + 3, 8196 * SECTOR + 2048 * 512 + 4} |->
                          IF o % 2 = 1 THEN 1 ELSE 2] }

BootBins == { [present |-> FALSE, bytes |-> << >>],
              [present |-> TRUE, bytes |-> <<235, 254>>],
              [present |-> TRUE, bytes |-> [i \in 1..432 |-> 144]],
              [present |-> TRUE, bytes |-> [i \in 1..433 |-> IF i = 433 THEN 7 ELSE 144]] }

\* Lengths of the squashfs image the writer produces
ImageLens == {4096, 256 * MiB - 1, 256 * MiB}

DefaultEnv ==
    [kernel |-> <<1, 1>>, cmdline |-> <<2>>, fetch_ok |-> TRUE,
     place |-> [cmdline |-> 8200, kernel |-> 8208], endpos |-> 66,
     bootbin |-> [present |-> TRUE, bytes |-> <<235, 254>>],
     install_ok |-> TRUE, imgA |-> 4096, imgB |-> 4096]

\* The runs of the model: every command line against every target and
\* build with the collaborators' default answers; every boot volume
\* (contents, placement, end position, stale bytes) for the default command
\* line; every bootloader and image length for every package list.
BootEnvs ==
    { [DefaultEnv EXCEPT !.kernel = k, !.cmdline = c, !.place = p, !.endpos = e, !.fetch_ok = f] :
        k \in Contents, c \in Contents, p \in Placements, e \in EndPositions, f \in {TRUE} }
    \cup { [DefaultEnv EXCEPT !.fetch_ok = FALSE] }
RootEnvs ==
    { [DefaultEnv EXCEPT !.bootbin = b, !.imgA = la, !.imgB = lb, !.install_ok = ok] :
        b \in BootBins, la \in ImageLens, lb \in ImageLens, ok \in BOOLEAN }

-----------------------------------------------------------------------------
(* The state machine *)

Init ==
    /\ pc = "main"
    /\ err = ""
    /\ opened = FALSE
    /\ dev_size = NoSize
    /\ cursor = 0
    /\ slices = << >>
    /\ buf = << >>
    /\ placed = << >>
    /\ search = [done |-> FALSE, kernel |-> -1, cmdline |-> -1, from |-> 0]
    /\ boot_bin = << >>
    /\ root = [a |-> NoTree, b |-> NoTree]
    /\ writes = {}
    /\ \/ /\ args \in ArgsSet
          /\ target \in Targets
          /\ build \in [overflow_checks : BOOLEAN]
          /\ env = DefaultEnv
          /\ disk = << >>
       \/ /\ args = DefaultArgs
          /\ target = DefaultTarget
          /\ build = [overflow_checks |-> FALSE]
          /\ env \in BootEnvs
          /\ disk \in StaleDisks
       \/ /\ args \in { [arch |-> "rpi", crates |-> p.crates, git |-> p.git, init |-> p.init,
                         size |-> Sz(4194304, 0)] : p \in Packages }
          /\ target \in {DefaultTarget, [kind |-> "device", len |-> Sz(1048576, 0)]}
          /\ build = [overflow_checks |-> FALSE]
          /\ env \in RootEnvs
          /\ disk = << >>
    /\ file_len = target.len

Fail(e) ==
    /\ pc' = "failed"
    /\ err' = e
    /\ cursor' = 0

\* main: validate, open the target, find its size
Main ==
    /\ pc = "main"
    /\ IF ConfigError(args) # ""
       THEN /\ Fail(ConfigError(args))
            /\ UNCHANGED <<opened, dev_size>>
       ELSE /\ opened' = TRUE
            /\ IF target.kind = "device"
               THEN /\ dev_size' = target.len
                    /\ pc' = "table"
                    /\ UNCHANGED <<err, cursor>>
               ELSE IF args.size # NoSize
               THEN /\ dev_size' = args.size
                    /\ pc' = "table"
                    /\ UNCHANGED <<err, cursor>>
               ELSE /\ Fail("size")
                    /\ UNCHANGED dev_size
    /\ UNCHANGED <<args, target, build, env, disk, file_len, slices, buf, placed, search,
                   boot_bin, root, writes>>

\* write_mbr_partition_table, called first by partition()
WriteMbrPartitionTable ==
    /\ pc = "table"
    /\ LET bytes == TableBytes(dev_size, build.overflow_checks)
       IN  /\ disk' = WriteAt(disk, cursor, bytes)
           /\ file_len' = Grow(file_len, cursor + Len(bytes))
           /\ writes' = writes \cup {[who |-> "table", lo |-> cursor, hi |-> cursor + Len(bytes)]}
           /\ IF TablePanics(dev_size, build.overflow_checks)
              THEN Fail("panic-overflow")
              ELSE /\ pc' = "slices"
                   /\ cursor' = cursor + Len(bytes)
                   /\ UNCHANGED err
    /\ UNCHANGED <<args, target, build, env, opened, dev_size, slices, buf, placed, search,
                   boot_bin, root>>

\* The three StreamSlice::new calls; each seeks the shared offset to its start
MakeSlices ==
    /\ pc = "slices"
    /\ slices' = [boot |-> BootSlice, a |-> RootASlice, b |-> RootBSlice]
    /\ cursor' = RootBSlice.start
    /\ pc' = "boot"
    /\ UNCHANGED <<err, args, target, build, env, opened, dev_size, disk, file_len, buf, placed,
                   search, boot_bin, root, writes>>

GrowIfFile(kind, z, off) == IF kind = "file" THEN Grow(z, off) ELSE z

\* The ranges write_boot writes through the boot slice: the FAT metadata of
\* format_volume, the two files' clusters, and on rpi the firmware blobs
BootRanges(base, e, arch, all) ==
    {[who |-> "boot", lo |-> base, hi |-> base + FatMetaBytes]}
    \cup (IF all
          THEN {[who |-> "boot", lo |-> base + e.place.cmdline * SECTOR,
                 hi |-> base + e.place.cmdline * SECTOR + Len(e.cmdline)],
                [who |-> "boot", lo |-> base + e.place.kernel * SECTOR,
                 hi |-> base + e.place.kernel * SECTOR + Len(e.kernel)]}
               \cup (IF arch = "rpi"
                     THEN {[who |-> "boot", lo |-> base + FirmwareRange.lo,
                            hi |-> base + FirmwareRange.hi]}
                     ELSE {})
          ELSE {})

RangesEnd(rs) == CHOOSE h \in {r.hi : r \in rs} : \A r \in rs : r.hi <= h

\* write_boot: format the slice as FAT32, fetch and write cmdline.txt then
\* kernel.img (BTreeMap order), on rpi the firmware; returns the contents
WriteBoot ==
    /\ pc = "boot"
    /\ LET base == slices.boot.start
           rs == BootRanges(base, env, args.arch, env.fetch_ok)
       IN  /\ writes' = writes \cup rs
           /\ file_len' = GrowIfFile(target.kind, file_len, RangesEnd(rs))
           /\ IF ~env.fetch_ok
              THEN /\ Fail("fetch")
                   /\ UNCHANGED <<disk, buf, placed, slices>>
              ELSE /\ disk' = WriteAt(WriteAt(disk, base + env.place.cmdline * SECTOR, env.cmdline),
                                      base + env.place.kernel * SECTOR, env.kernel)
                   /\ buf' = [kernel |-> env.kernel, cmdline |-> env.cmdline]
                   /\ placed' = [kernel |-> base + env.place.kernel * SECTOR,
                                 cmdline |-> base + env.place.cmdline * SECTOR]
                   /\ slices' = [slices EXCEPT !.boot.cur = env.endpos]
                   /\ cursor' = base + env.endpos
                   /\ pc' = "mbr"
                   /\ UNCHANGED err
    /\ UNCHANGED <<args, target, build, env, opened, dev_size, search, boot_bin, root>>

\* (variant: the bootloader is padded to the whole 446-byte boot code area)
MbrImageWide(bin, kpos, cpos) ==
    [i \in 1..446 |-> IF i <= Len(bin) THEN bin[i] ELSE 0] \o BootloaderParams(kpos, cpos)

\* The bytes write_mbr writes from offset 0 after file.rewind()
MbrImage(bin, kpos, cpos) == Resize432(bin) \o BootloaderParams(kpos, cpos)

\* (variant: a failed search falls back to position 0 instead of panicking)
SearchedOrZero(d, from, len, pat) == Max(0, Position(d, from, len, pat))

\* The search for one content: windows(0) panics before any search
Searched(d, from, len, pat) == IF Len(pat) = 0 THEN -1 ELSE Position(d, from, len, pat)

\* write_mbr: read the target from the shared offset to its end, search the
\* two contents, write bootloader and LBAs at offset 0
WriteMbr ==
    /\ pc = "mbr"
    /\ LET kpos == Searched(disk, cursor, file_len, buf.kernel)
           cpos == IF Len(buf.kernel) = 0 \/ kpos < 0 THEN -1
                   ELSE Searched(disk, cursor, file_len, buf.cmdline)
           e == MbrError(buf.kernel, buf.cmdline, kpos, cpos, env.bootbin)
       IN  /\ search' = [done |-> TRUE, kernel |-> kpos, cmdline |-> cpos, from |-> cursor]
           /\ IF e # ""
              THEN /\ Fail(e)
                   /\ UNCHANGED <<disk, writes, boot_bin>>
              ELSE /\ disk' = WriteAt(disk, 0, MbrImage(env.bootbin.bytes, kpos, cpos))
                   /\ writes' = writes \cup
                        {[who |-> "mbr", lo |-> 0,
                          hi |-> Len(MbrImage(env.bootbin.bytes, kpos, cpos))]}
                   /\ boot_bin' = env.bootbin.bytes
                   /\ cursor' = Len(MbrImage(env.bootbin.bytes, kpos, cpos))
                   /\ pc' = "rootA"
                   /\ UNCHANGED err
    /\ UNCHANGED <<args, target, build, env, opened, dev_size, file_len, slices, buf, placed, root>>

\* The error that ends write_root before it builds the tree: cargo install
\* of the crates, then per git location Url::parse and cargo install
RootError(a, e) ==
    IF Len(a.crates) > 0 /\ ~e.install_ok THEN "install"
    ELSE IF ~GitUrlsParse(a.git) THEN "url"
    ELSE IF Len(a.git) > 0 /\ ~e.install_ok THEN "install"
    ELSE ""

\* partition.read_to_end: reads at the shared offset, at most size - cur bytes
SliceReadToEnd(sl, off, len) ==
    LET n == Max(0, Clamp(off + (sl.size - sl.cur), len) - off)
    IN  [sl EXCEPT !.cur = sl.cur + n]
\* partition.rewind()
SliceRewind(sl) == [sl EXCEPT !.cur = 0]

\* write_root for one slot: install the packages, read the slot, build the
\* tree, and copy the squashfs image to the start of the slice
WriteRoot(s) ==
    /\ pc = (IF s = "a" THEN "rootA" ELSE "rootB")
    /\ LET sl == SliceRewind(SliceReadToEnd(slices[s], cursor, file_len))
           imglen == IF s = "a" THEN env.imgA ELSE env.imgB
           n == Min(imglen, SliceRoom(sl, sl.start, target.kind, file_len))
       IN  IF RootError(args, env) # ""
           THEN /\ Fail(RootError(args, env))
                /\ UNCHANGED <<root, writes, file_len, slices>>
           ELSE /\ root' = [root EXCEPT ![s] = RootTree(args.crates, args.git, args.init)]
                /\ writes' = writes \cup
                     {[who |-> (IF s = "a" THEN "rootA" ELSE "rootB"),
                       lo |-> sl.start, hi |-> sl.start + n]}
                /\ file_len' = GrowIfFile(target.kind, file_len, sl.start + n)
                /\ slices' = [slices EXCEPT ![s] = [sl EXCEPT !.cur = n]]
                /\ IF n < imglen
                   THEN Fail("write-zero")
                   ELSE /\ cursor' = sl.start + n
                        /\ pc' = (IF s = "a" THEN "rootB" ELSE "done")
                        /\ UNCHANGED err
    /\ UNCHANGED <<args, target, build, env, opened, dev_size, disk, buf, placed, search, boot_bin>>

WriteRootA == WriteRoot("a")
WriteRootB == WriteRoot("b")

Next == \/ Main
        \/ WriteMbrPartitionTable
        \/ MakeSlices
        \/ WriteBoot
        \/ WriteMbr
        \/ WriteRootA
        \/ WriteRootB

Spec == Init /\ [][Next]_vars

-----------------------------------------------------------------------------
(* Properties *)

Wrote(who) == \E w \in writes : w.who = who
Patched == pc \in {"rootA", "rootB", "done"}

\* A little-endian u32 below 2^31 as a number
DecodeU32(b) == b[1] + 256 * b[2] + 65536 * b[3] + 16777216 * b[4]
KernelLbaOnDisk == DecodeU32(ReadAt(disk, 432, 4))
CmdlineLbaOnDisk == DecodeU32(ReadAt(disk, 436, 4))

\* Partition entry i of the MBR on disk: its start and size fields
EntryBytes(i) == ReadAt(disk, 446 + 16 * (i - 1), 16)
EntryStart(i) == SubSeq(EntryBytes(i), 9, 12)
EntrySize(i) == SubSeq(EntryBytes(i), 13, 16)

FixedSectors == 2048 + 3 * SLOT_SECTORS

\* C1: after a successful run, seeking to LBA * 512 for each of the two LBAs
\* stored in the MBR and reading len(content) bytes yields kernel.img's,
\* respectively cmdline.txt's, content.
C1_LbaLandsOnContent ==
    pc = "done" =>
        /\ ReadAt(disk, KernelLbaOnDisk * SECTOR, Len(buf.kernel)) = buf.kernel
        /\ ReadAt(disk, CmdlineLbaOnDisk * SECTOR, Len(buf.cmdline)) = buf.cmdline

\* C2: for every size with more sectors than the fixed regions, the table
\* written holds boot, rootA, rootB of 524288 sectors each back to back from
\* sector 2048, and data from sector 1574912 with floor(S/512) - 1574912 sectors.
C2_TableTilesDisk ==
    (Wrote("table") /\ dev_size.s > FixedSectors) =>
        /\ EntryStart(1) = U32LE(2048) /\ EntrySize(1) = U32LE(524288)
        /\ EntryStart(2) = U32LE(2048 + 524288) /\ EntrySize(2) = U32LE(524288)
        /\ EntryStart(3) = U32LE(2048 + 2 * 524288) /\ EntrySize(3) = U32LE(524288)
        /\ EntryStart(4) = U32LE(1574912)
        /\ EntrySize(4) = U32LE(dev_size.s - 1574912)

C5_MbrLayout ==
    /\ Patched =>
           ReadAt(disk, 440, 72) = SubSeq(TableBytes(dev_size, build.overflow_checks), 441, 512)
    /\ pc = "done" =>
           /\ \A i \in 1..432 :
                  ByteAt(disk, i - 1) = (IF i <= Len(boot_bin) THEN boot_bin[i] ELSE 0)
           /\ ReadAt(disk, 432, 4) = U32LE(search.kernel \div 512 + 1 + 2048)
           /\ ReadAt(disk, 436, 4) = U32LE(search.cmdline \div 512 + 1 + 2048)
           /\ ReadAt(disk, 440, 6) = <<0, 0, 0, 0, 0, 0>>
           /\ \A i \in 1..4 : SubSeq(EntryBytes(i), 2, 4) = <<255, 255, 254>>
           /\ EntryStart(1) = U32LE(2048) /\ EntryStart(4) = U32LE(1574912)
           /\ ReadAt(disk, 510, 2) = <<85, 170>>
           /\ \A w \in writes : w.who = "mbr" => (w.lo = 0 /\ w.hi = 440)

C5_Witness ==
    /\ pc = "done"
    /\ Len(boot_bin) = 2
    /\ Wrote("mbr") /\ Wrote("table") /\ Wrote("rootB")

\* A content occurs verbatim in the buffer read from offset `from` on
Occurs(pat, from) ==
    /\ Len(pat) > 0
    /\ \E o \in DOMAIN disk :
           /\ o >= from
           /\ OffLeq(o + Len(pat), file_len)
           /\ \A i \in 1..Len(pat) : ByteAt(disk, o + i - 1) = pat[i]

\* C6: when kernel.img's or cmdline.txt's content does not occur in the
\* buffer write_mbr searched (or is empty), the run has failed, nothing was
\* written to MBR bytes [0..440) and no root slot was written; a run that
\* got past write_mbr stored LBAs that come from real matches.
C6_NoMatchIsFatal ==
    /\ (search.done /\ (~Occurs(buf.kernel, search.from) \/ ~Occurs(buf.cmdline, search.from))) =>
           /\ pc = "failed"
           /\ ~Wrote("mbr") /\ ~Wrote("rootA") /\ ~Wrote("rootB")
           /\ ReadAt(disk, 0, 440) = Zeros(440)
           /\ root = [a |-> NoTree, b |-> NoTree]
    /\ Patched =>
           /\ search.kernel >= 0 /\ search.cmdline >= 0
           /\ ReadAt(disk, search.from + search.kernel, Len(buf.kernel)) = buf.kernel
           /\ ReadAt(disk, search.from + search.cmdline, Len(buf.cmdline)) = buf.cmdline
           /\ KernelLbaOnDisk = 2048 + search.kernel \div 512 + 1
           /\ CmdlineLbaOnDisk = 2048 + search.cmdline \div 512 + 1

C6_Witness ==
    /\ pc = "failed"
    /\ search.done
    /\ Occurs(buf.kernel, search.from)
    /\ Len(buf.cmdline) > 0
    /\ ~Occurs(buf.cmdline, search.from)

\* The configuration errors of C7
NoSuchInit ==
    /\ \A i \in 1..Len(args.crates) : args.crates[i] # args.init
    /\ \A i \in 1..Len(args.git) :
           ~(UrlParses(SplitFirst(args.git[i])) /\ GitPkg(args.git[i]) = args.init)
BadConfig ==
    \/ args.arch \notin {"x86_64", "rpi"}
    \/ NoSuchInit
    \/ target.kind = "file" /\ args.size = NoSize

\* C7: with an unsupported architecture, an init name that no crate and no
\* git location resolves to, or a plain-file target without a size, the run
\* ends in a configuration error and nothing has been written to the target.
C7_ConfigErrorBeforeWrite ==
    BadConfig =>
        /\ pc \in {"main", "failed"}
        /\ pc = "failed" => err \in {"arch", "init", "size"}
        /\ writes = {}
        /\ DOMAIN disk = {}
        /\ file_len = target.len

C7_Witness ==
    /\ pc = "failed"
    /\ err = "init"
    /\ args.arch = "rpi"
    /\ Len(args.git) > 0

\* C8: when the target has no more sectors than the fixed regions need, no
\* partition table is written.
C8_SmallTargetRejected ==
    (dev_size # NoSize /\ dev_size.s <= 1574912) => ~Wrote("table")

\* C9: the MBR is patched only with a boot.bin of at most 432 bytes, and
\* then bytes [0..len) are the binary and [len..432) are zero.
C9_LongBootloaderRejected ==
    Patched =>
        /\ Len(boot_bin) <= 432
        /\ ReadAt(disk, 0, Len(boot_bin)) = boot_bin
        /\ \A o \in Len(boot_bin)..431 : ByteAt(disk, o) = 0

\* The byte range of partition entry i, from the constants of the table
PartLo(i) == (2048 + (i - 1) * SLOT_SECTORS) * SECTOR
PartHi(i) == PartLo(i) + SLOT_SECTORS * SECTOR
PartOf(who) == IF who = "boot" THEN 1 ELSE IF who = "rootA" THEN 2 ELSE 3

\* C10: every byte written by write_boot lies in partition 1, by write_root
\* in partition 2 (slot A) or 3 (slot B), and each slice covers exactly the
\* byte range of its partition entry.
C10_SlicesMatchPartitions ==
    /\ \A w \in writes :
           w.who \in {"boot", "rootA", "rootB"} =>
               (PartLo(PartOf(w.who)) <= w.lo /\ w.hi <= PartHi(PartOf(w.who)))
    /\ slices # << >> =>
           /\ EntryStart(1) = U32LE(slices.boot.start \div SECTOR)
           /\ EntryStart(2) = U32LE(slices.a.start \div SECTOR)
           /\ EntryStart(3) = U32LE(slices.b.start \div SECTOR)
           /\ \A n \in {"boot", "a", "b"} :
                  /\ slices[n].start % SECTOR = 0
                  /\ slices[n].size = SLOT_SECTORS * SECTOR

====
